---- MODULE Spec2Model ----
(***************************************************************************)
(* Document type detection (src/detection): the catalog of supported       *)
(* types, the DocumentService facade over it, and the six-step pipeline of *)
(* DocumentTypeDetector.detect_document_type.                              *)
(*                                                                         *)
(* Conventions                                                             *)
(*   - Optional[T] is a sequence: None is <<>>, a present value v is <<v>>.*)
(*   - confidence is kept in hundredths (0.7 is 70, 1.0 is 100).           *)
(*   - size_mb (rounded to two decimals by the code) is kept in hundredths *)
(*     of a megabyte (0.02 MB is 2, 5 MB is 500).                          *)
(*   - strings are the code's own literals.  The specification's English   *)
(*     vocabulary maps onto them as follows: method "content" is           *)
(*     "mime_content", resolution "content_priority" is "mime_priority",   *)
(*     reason "unsupported type" is "Type de fichier non supporté".        *)
(***************************************************************************)
EXTENDS Integers, Sequences, FiniteSets, TLC

VARIABLES
    file,                 \* the path handed to detect_document_type and what the filesystem holds there
    cap,                  \* sniffing library found at import time (HAS_MAGIC / HAS_FILETYPE)
    supported_types,      \* DocumentService._supported_types
    mime_to_extension,    \* DocumentService._mime_to_extension
    pc,                   \* position of the call inside detect_document_type
    file_info,            \* local file_info
    extension_detection,  \* local extension_detection
    mime_detection,       \* local mime_detection
    final_detection,      \* local final_detection
    processing_info,      \* local processing_info
    result,               \* the DocumentDetectionResult returned to the caller
    raised,               \* the exception that left detect_document_type, if any
    visited,              \* history: the positions the call has been in, in order
    last_call             \* the last call made on the DocumentService and how it ended

vars == <<file, cap, supported_types, mime_to_extension, pc, file_info,
          extension_detection, mime_detection, final_detection,
          processing_info, result, raised, visited, last_call>>

None == <<>>
Some(v) == <<v>>

Max(a, b) == IF a >= b THEN a ELSE b
Min(a, b) == IF a <= b THEN a ELSE b

----------------------------------------------------------------------------
(* Bounds of the model *)

\* file sizes are SizeStep * k bytes for k in 0..MaxSizeSteps, plus the sizes in EdgeSizes
MaxSizeSteps == 52

----------------------------------------------------------------------------
(* models.py *)

ComplexityLevel == {"low", "medium", "high"}

\* field_validator("extension"): v.lower(); str.lower() on the extensions of the model
Lower(s) ==
    CASE s = ".TXT" -> ".txt"
      [] s = ".Docx" -> ".docx"
      [] OTHER -> s

DocumentType(extension, mime_type, description, parser_module, complexity) ==
    [extension |-> Lower(extension), mime_type |-> mime_type,
     description |-> description, parser_module |-> parser_module,
     complexity |-> complexity]

DetectionResult(method, detected_type, mime_type, description, confidence, is_supported) ==
    [method |-> method, detected_type |-> detected_type, mime_type |-> mime_type,
     description |-> description, confidence |-> confidence,
     is_supported |-> is_supported, resolution |-> None, extension_match |-> None]

DocumentDetectionResult(fi, det, proc, status, error) ==
    [file_info |-> fi, detection |-> det, processing |-> proc,
     status |-> status, error |-> error]

----------------------------------------------------------------------------
(* config.py *)

MimeDocx == "application/vnd.openxmlformats-officedocument.wordprocessingml.document"
MimePdf == "application/pdf"
MimeTxt == "text/plain"
MimeOdt == "application/vnd.oasis.opendocument.text"

SUPPORTED_EXTENSIONS ==
    (".docx" :> [extension |-> ".docx", mime_type |-> MimeDocx,
                 description |-> "Microsoft Word Document",
                 parser_module |-> "python-docx", complexity |-> "medium"])
 @@ (".pdf" :> [extension |-> ".pdf", mime_type |-> MimePdf,
                description |-> "PDF Document",
                parser_module |-> "pdfplumber", complexity |-> "high"])
 @@ (".txt" :> [extension |-> ".txt", mime_type |-> MimeTxt,
                description |-> "Plain Text File",
                parser_module |-> "built-in", complexity |-> "low"])
 @@ (".odt" :> [extension |-> ".odt", mime_type |-> MimeOdt,
                description |-> "OpenDocument Text",
                parser_module |-> "odfpy", complexity |-> "medium"])

get_supported_types ==
    [ext \in DOMAIN SUPPORTED_EXTENSIONS |->
        LET c == SUPPORTED_EXTENSIONS[ext]
        IN  DocumentType(c.extension, c.mime_type, c.description,
                         c.parser_module, c.complexity)]

get_mime_to_extension_mapping ==
    [m \in {SUPPORTED_EXTENSIONS[ext].mime_type : ext \in DOMAIN SUPPORTED_EXTENSIONS} |->
        CHOOSE ext \in DOMAIN SUPPORTED_EXTENSIONS : SUPPORTED_EXTENSIONS[ext].mime_type = m]

----------------------------------------------------------------------------
(* document_service.py: a service is the pair of its two dictionaries *)

NewDocumentService ==
    [supported_types |-> get_supported_types,
     mime_to_extension |-> get_mime_to_extension_mapping]

\* dict[key] = value
DictSet(d, k, v) == [x \in DOMAIN d \cup {k} |-> IF x = k THEN v ELSE d[x]]
\* del dict[key], the key being present
DictDel(d, k) == [x \in DOMAIN d \ {k} |-> d[x]]

add_document_type(svc, doc_type) ==
    [supported_types |-> DictSet(svc.supported_types, doc_type.extension, doc_type),
     mime_to_extension |-> DictSet(svc.mime_to_extension, doc_type.mime_type, doc_type.extension)]

\* remove_document_type raises KeyError at the second del when the media
\* identifier of the removed descriptor is not a key of the inverse mapping
remove_raises(svc, extension) ==
    LET e == Lower(extension)
    IN  /\ e \in DOMAIN svc.supported_types
        /\ svc.supported_types[e].mime_type \notin DOMAIN svc.mime_to_extension

\* the value remove_document_type returns, when it returns
remove_returns(svc, extension) == Lower(extension) \in DOMAIN svc.supported_types

\* the service after remove_document_type(extension); when the second del
\* raises, the first del has already taken the descriptor out
remove_document_type(svc, extension) ==
    LET e == Lower(extension)
    IN  IF e \in DOMAIN svc.supported_types
        THEN [supported_types |-> DictDel(svc.supported_types, e),
              mime_to_extension |->
                  DictDel(svc.mime_to_extension, svc.supported_types[e].mime_type)]
        ELSE svc

is_supported(extension) == Lower(extension) \in DOMAIN supported_types

get_document_type(extension) ==
    IF Lower(extension) \in DOMAIN supported_types
    THEN Some(supported_types[Lower(extension)])
    ELSE None

\* mime_type is an Optional[str]; dict.get(None) is None
get_extension_from_mime(mime_type) ==
    IF mime_type # None /\ mime_type[1] \in DOMAIN mime_to_extension
    THEN Some(mime_to_extension[mime_type[1]])
    ELSE None

----------------------------------------------------------------------------
(* file_detector.py: what the call is given *)

MB == 1024 * 1024

\* granularity of the file sizes of the model: 2.5 MB
SizeStep == (5 * MB) \div 2

\* sizes next to the cut points of the size buckets, and the 0.02 MB file
EdgeSizes == {20971, 524288, MB - 1, MB, 10 * MB - 1, 50 * MB - 1}

Sizes == {SizeStep * k : k \in 0..MaxSizeSteps} \cup EdgeSizes

Suffixes == {".txt", ".TXT", ".docx", ".pdf", ".odt", ".xyz", ".rtf", ""}

\* a media identifier the default catalog does not know, and one that only a
\* service with a stale inverse entry knows
MimePng == "image/png"
MimeRtf == "application/rtf"

SniffedMimes == {MimeDocx, MimePdf, MimeTxt, MimeOdt, MimePng, MimeRtf}

\* what the filesystem holds at the path:
\*   "missing"    nothing; Path.exists() is False
\*   "regular"    a file that can be stat-ed
\*   "unstatable" Path.exists() itself raises (file name too long, search
\*                permission denied on a parent directory)
\*   "vanishing"  exists() is True but the file is gone when stat() runs
PathKinds == {"missing", "regular", "unstatable", "vanishing"}

\* outcome of the sniffing primitive: it raises, or returns a media identifier or None
SniffOutcomes ==
    {[raises |-> TRUE, mime |-> None]}
    \cup {[raises |-> FALSE, mime |-> Some(m)] : m \in SniffedMimes}
    \cup {[raises |-> FALSE, mime |-> None]}

Caps == {"magic", "filetype", "mimetypes"}

file_path(f) == f.stem \o f.suffix

\* mimetypes.guess_type: the standard table, keyed by the lower-cased suffix
GuessType(suffix) ==
    CASE Lower(suffix) = ".txt" -> Some(MimeTxt)
      [] Lower(suffix) = ".pdf" -> Some(MimePdf)
      [] Lower(suffix) = ".docx" -> Some(MimeDocx)
      [] Lower(suffix) = ".odt" -> Some(MimeOdt)
      [] Lower(suffix) = ".rtf" -> Some(MimeRtf)
      [] Lower(suffix) = ".xyz" -> Some("chemical/x-xyz")
      [] OTHER -> None

----------------------------------------------------------------------------
(* file_detector.py: private helpers *)

\* round(size_bytes / (1024 * 1024), 2), in hundredths of a megabyte; round()
\* rounds half to even
RoundMB(size_bytes) ==
    LET q == size_bytes \div MB
        r == size_bytes % MB
        fl == (r * 100) \div MB
        rem == (r * 100) % MB
        up == rem * 2 > MB \/ (rem * 2 = MB /\ fl % 2 = 1)
    IN  q * 100 + fl + (IF up THEN 1 ELSE 0)

\* variant: a file of exactly 1 MB still counts as small
categorize_file_size_inclusive(size_bytes) ==
    IF size_bytes <= 1 * MB THEN "small"
    ELSE IF size_bytes < 10 * MB THEN "medium"
    ELSE IF size_bytes < 50 * MB THEN "large"
    ELSE "very_large"

categorize_file_size(size_bytes) ==
    IF size_bytes < 1 * MB THEN "small"
    ELSE IF size_bytes < 10 * MB THEN "medium"
    ELSE IF size_bytes < 50 * MB THEN "large"
    ELSE "very_large"

estimate_size_complexity(size_mb) ==
    IF size_mb < 500 THEN "low"
    ELSE IF size_mb < 2000 THEN "medium"
    ELSE "high"

ComplexityOrder(c) ==
    CASE c = "low" -> 1 [] c = "medium" -> 2 [] c = "high" -> 3 [] OTHER -> 0

\* variant: the comparison is turned around and the lower class is returned
max_complexity_lower(complexity1, complexity2) ==
    IF ComplexityOrder(complexity1) <= ComplexityOrder(complexity2)
    THEN complexity1
    ELSE complexity2

max_complexity(complexity1, complexity2) ==
    IF ComplexityOrder(complexity1) >= ComplexityOrder(complexity2)
    THEN complexity1
    ELSE complexity2

BaseTime(complexity) ==
    CASE complexity = "low" -> 1 [] complexity = "medium" -> 5
      [] complexity = "high" -> 15 [] OTHER -> 10

\* variant: seconds and minutes rounded to the nearest integer
estimate_processing_time_rounded(complexity, size_mb) ==
    LET estimated_500ths == BaseTime(complexity) * Max(500, size_mb)
    IN  IF estimated_500ths < 60 * 500
        THEN "~" \o ToString((estimated_500ths + 250) \div 500) \o "s"
        ELSE "~" \o ToString((estimated_500ths + 30 * 500) \div (60 * 500)) \o "min"

\* estimated_seconds = base_time * max(1, size_mb / 5), kept exactly as the
\* number of 1/500 s: base_time * max(500, size_mb in hundredths).  int()
\* truncates.  (For every size_mb up to 200.00 the floating-point result of
\* the code has the same integer part as the exact value.)
estimate_processing_time(complexity, size_mb) ==
    LET estimated_500ths == BaseTime(complexity) * Max(500, size_mb)
    IN  IF estimated_500ths < 60 * 500
        THEN "~" \o ToString(estimated_500ths \div 500) \o "s"
        ELSE "~" \o ToString(estimated_500ths \div (60 * 500)) \o "min"

MemoryFactor(file_type) ==
    CASE file_type = ".txt" -> 2 [] file_type = ".docx" -> 4
      [] file_type = ".pdf" -> 6 [] file_type = ".odt" -> 5 [] OTHER -> 4

estimate_memory_usage(file_type, size_mb) ==
    LET estimated_mb == size_mb * MemoryFactor(file_type)
    IN  IF estimated_mb < 100 * 100 THEN "low"
        ELSE IF estimated_mb < 500 * 100 THEN "medium"
        ELSE "high"

----------------------------------------------------------------------------
(* file_detector.py: the steps of the pipeline *)

extract_file_info(f) ==
    [path |-> "/cwd/" \o file_path(f),
     name |-> file_path(f),
     stem |-> f.stem,
     extension |-> Lower(f.suffix),
     size_bytes |-> f.size_bytes,
     size_mb |-> RoundMB(f.size_bytes),
     size_category |-> categorize_file_size(f.size_bytes)]

detect_by_extension(f) ==
    LET extension == Lower(f.suffix)
    IN  IF is_supported(extension)
        THEN LET doc_type == get_document_type(extension)[1]
             IN  DetectionResult("extension", extension, doc_type.mime_type,
                                 doc_type.description, 70, TRUE)
        ELSE DetectionResult("extension", extension, "unknown",
                             "Type non supporté", 30, FALSE)

\* variant: a sniffing fault reported like an unrecognised media identifier
MimeError_AsUnrecognised(message) ==
    DetectionResult("mime_content", "unknown", "unknown",
                    "Type non reconnu par type", 20, FALSE)

\* the except branch of _detect_by_mime
MimeError(message) ==
    DetectionResult("mime_content", "unknown", "error",
                    "Erreur détection MIME: " \o message, 0, FALSE)

\* the chosen sniffing primitive: [raises, mime, confidence]
Sniff(f, c) ==
    CASE c = "magic" ->
            \* magic.from_file returns a string or raises
            [raises |-> f.sniff.raises, mime |-> f.sniff.mime, confidence |-> 90]
      [] c = "filetype" ->
            \* kind.mime if kind else None
            [raises |-> f.sniff.raises, mime |-> f.sniff.mime, confidence |-> 80]
      [] OTHER ->
            \* mimetypes.guess_type looks at the name only
            [raises |-> FALSE, mime |-> GuessType(f.suffix), confidence |-> 60]

detect_by_mime(f, c) ==
    LET s == Sniff(f, c)
        detected_ext == get_extension_from_mime(s.mime)
    IN  IF s.raises
        THEN MimeError("sniffing failed")
        ELSE IF detected_ext # None
        THEN LET doc_type == get_document_type(detected_ext[1])
             IN  IF doc_type = None
                 THEN \* doc_type.description on None raises AttributeError
                      MimeError("'NoneType' object has no attribute 'description'")
                 ELSE DetectionResult("mime_content", detected_ext[1], s.mime[1],
                                      doc_type[1].description, s.confidence, TRUE)
        ELSE DetectionResult("mime_content", "unknown",
                             IF s.mime # None THEN s.mime[1] ELSE "unknown",
                             "Type non reconnu par type", 20, FALSE)

\* variant: the gate lets a content confidence of exactly 0.7 through
resolve_detection_conflicts_gate_at_07(ext_detection, mime_det) ==
    IF mime_det.confidence >= 70 /\ mime_det.mime_type # "error"
    THEN LET ext_type == ext_detection.detected_type
             mime_type == mime_det.detected_type
             confidence == IF ext_type = mime_type
                           THEN Min(100, ext_detection.confidence + mime_det.confidence)
                           ELSE mime_det.confidence
             resolution == IF ext_type = mime_type THEN "coherent" ELSE "mime_priority"
         IN  [mime_det EXCEPT !.confidence = confidence,
                              !.resolution = Some(resolution),
                              !.extension_match = Some(ext_type = mime_type)]
    ELSE [ext_detection EXCEPT !.resolution = Some("extension_fallback")]

\* variant: the sum of the two confidences is not capped at 1.0
resolve_detection_conflicts_uncapped(ext_detection, mime_det) ==
    IF mime_det.confidence > 70 /\ mime_det.mime_type # "error"
    THEN LET ext_type == ext_detection.detected_type
             mime_type == mime_det.detected_type
             confidence == IF ext_type = mime_type
                           THEN ext_detection.confidence + mime_det.confidence
                           ELSE mime_det.confidence
             resolution == IF ext_type = mime_type THEN "coherent" ELSE "mime_priority"
         IN  [mime_det EXCEPT !.confidence = confidence,
                              !.resolution = Some(resolution),
                              !.extension_match = Some(ext_type = mime_type)]
    ELSE [ext_detection EXCEPT !.resolution = Some("extension_fallback")]

\* variant: a conflicting content signal gets the agreement boost too
resolve_detection_conflicts_boosted(ext_detection, mime_det) ==
    IF mime_det.confidence > 70 /\ mime_det.mime_type # "error"
    THEN LET ext_type == ext_detection.detected_type
             mime_type == mime_det.detected_type
             confidence == IF ext_type = mime_type
                           THEN Min(100, ext_detection.confidence + mime_det.confidence)
                           ELSE Min(100, ext_detection.confidence + mime_det.confidence)
             resolution == IF ext_type = mime_type THEN "coherent" ELSE "mime_priority"
         IN  [mime_det EXCEPT !.confidence = confidence,
                              !.resolution = Some(resolution),
                              !.extension_match = Some(ext_type = mime_type)]
    ELSE [ext_detection EXCEPT !.resolution = Some("extension_fallback")]

resolve_detection_conflicts(ext_detection, mime_det) ==
    IF mime_det.confidence > 70 /\ mime_det.mime_type # "error"
    THEN LET ext_type == ext_detection.detected_type
             mime_type == mime_det.detected_type
             confidence == IF ext_type = mime_type
                           THEN Min(100, ext_detection.confidence + mime_det.confidence)
                           ELSE mime_det.confidence
             resolution == IF ext_type = mime_type THEN "coherent" ELSE "mime_priority"
         IN  [mime_det EXCEPT !.confidence = confidence,
                              !.resolution = Some(resolution),
                              !.extension_match = Some(ext_type = mime_type)]
    ELSE [ext_detection EXCEPT !.resolution = Some("extension_fallback")]

ProcessingInfo(can_process, recommended_parser, complexity, estimated_time, memory_requirement, reason) ==
    [can_process |-> can_process, recommended_parser |-> recommended_parser,
     complexity |-> complexity, estimated_time |-> estimated_time,
     memory_requirement |-> memory_requirement, reason |-> reason]

\* variant: the refusal carries no reason
generate_processing_info_no_reason(detection, fi) ==
    LET detected_type == detection.detected_type
    IN  IF detection.is_supported /\ is_supported(detected_type)
        THEN LET doc_type == get_document_type(detected_type)[1]
                 size_complexity == estimate_size_complexity(fi.size_mb)
                 overall_complexity == max_complexity(doc_type.complexity, size_complexity)
             IN  ProcessingInfo(TRUE, Some(doc_type.parser_module),
                                Some(overall_complexity),
                                Some(estimate_processing_time(overall_complexity, fi.size_mb)),
                                Some(estimate_memory_usage(detected_type, fi.size_mb)),
                                None)
        ELSE ProcessingInfo(FALSE, None, None, None, None, None)

generate_processing_info(detection, fi) ==
    LET detected_type == detection.detected_type
    IN  IF detection.is_supported /\ is_supported(detected_type)
        THEN LET doc_type == get_document_type(detected_type)[1]
                 size_complexity == estimate_size_complexity(fi.size_mb)
                 overall_complexity == max_complexity(doc_type.complexity, size_complexity)
             IN  ProcessingInfo(TRUE, Some(doc_type.parser_module),
                                Some(overall_complexity),
                                Some(estimate_processing_time(overall_complexity, fi.size_mb)),
                                Some(estimate_memory_usage(detected_type, fi.size_mb)),
                                None)
        ELSE ProcessingInfo(FALSE, None, None, None, None,
                            Some("Type de fichier non supporté"))

----------------------------------------------------------------------------
(* The inputs of a call *)

NoSniff == [raises |-> FALSE, mime |-> None]

File(kind, suffix, size_bytes, sniff) ==
    [kind |-> kind, stem |-> "report", suffix |-> suffix,
     size_bytes |-> size_bytes, sniff |-> sniff]

Files ==
    {File("regular", s, n, o) : s \in Suffixes, n \in Sizes, o \in SniffOutcomes}
    \cup {File(k, s, 0, NoSniff) : k \in PathKinds \ {"regular"}, s \in Suffixes}

\* a service on which ".rtf" was registered twice under two media identifiers
\* and then removed: the first identifier stays in the inverse mapping
StaleService ==
    remove_document_type(
        add_document_type(
            add_document_type(NewDocumentService,
                DocumentType(".rtf", MimeRtf, "Rich Text", "striprtf", "low")),
            DocumentType(".rtf", "text/rtf", "Rich Text", "striprtf", "low")),
        ".rtf")

Services == {NewDocumentService, StaleService}

----------------------------------------------------------------------------
(* detect_document_type, one action per step *)

Goto(p) ==
    /\ pc' = p
    /\ visited' = Append(visited, p)

\* variant: the error outcome keeps the file facts
ReturnError_KeepsFileInfo(message) ==
    /\ result' = Some(DocumentDetectionResult(Some(extract_file_info(file)), None, None,
                                              "error", Some(message)))
    /\ Goto("error")

ReturnError(message) ==
    /\ result' = Some(DocumentDetectionResult(None, None, None, "error", Some(message)))
    /\ Goto("error")

\* variant: the existence check lets every path through
PathExists_Always(f) == TRUE

\* path_obj.exists(), when it returns
PathExists(f) == f.kind \in {"regular", "vanishing"}

\* Path(file_path) and path_obj.exists(), outside the try block
CheckExists ==
    /\ pc = "start"
    /\ CASE file.kind = "unstatable" ->
                /\ raised' = Some("OSError")
                /\ Goto("raised")
                /\ UNCHANGED result
         [] ~PathExists(file) ->
                /\ ReturnError("Fichier non trouvé:" \o file_path(file))
                /\ UNCHANGED raised
         [] OTHER ->
                /\ Goto("probe")
                /\ UNCHANGED <<result, raised>>
    /\ UNCHANGED <<last_call, file, cap, supported_types, mime_to_extension, file_info,
                   extension_detection, mime_detection, final_detection,
                   processing_info>>

\* file_info = self._extract_file_info(path_obj); stat() may raise
Probe ==
    /\ pc = "probe"
    /\ IF file.kind = "vanishing"
       THEN /\ ReturnError("Erreur lors de l'analyse: " \o "[Errno 2] No such file or directory")
            /\ UNCHANGED file_info
       ELSE /\ file_info' = Some(extract_file_info(file))
            /\ Goto("classify_extension")
            /\ UNCHANGED result
    /\ UNCHANGED <<last_call, file, cap, supported_types, mime_to_extension, raised,
                   extension_detection, mime_detection, final_detection,
                   processing_info>>

\* extension_detection = self._detect_by_extension(path_obj)
ClassifyExtension ==
    /\ pc = "classify_extension"
    /\ extension_detection' = Some(detect_by_extension(file))
    /\ Goto("classify_content")
    /\ UNCHANGED <<last_call, file, cap, supported_types, mime_to_extension, raised, result,
                   file_info, mime_detection, final_detection, processing_info>>

\* mime_detection = self._detect_by_mime(path_obj)
ClassifyContent ==
    /\ pc = "classify_content"
    /\ mime_detection' = Some(detect_by_mime(file, cap))
    /\ Goto("resolve")
    /\ UNCHANGED <<last_call, file, cap, supported_types, mime_to_extension, raised, result,
                   file_info, extension_detection, final_detection, processing_info>>

\* final_detection = self._resolve_detection_conflicts(...)
Resolve ==
    /\ pc = "resolve"
    /\ final_detection' =
           Some(resolve_detection_conflicts(extension_detection[1], mime_detection[1]))
    /\ Goto("estimate")
    /\ UNCHANGED <<last_call, file, cap, supported_types, mime_to_extension, raised, result,
                   file_info, extension_detection, mime_detection, processing_info>>

\* processing_info = self._generate_processing_info(...) and the return of
\* the successful DocumentDetectionResult
Estimate ==
    /\ pc = "estimate"
    /\ processing_info' = Some(generate_processing_info(final_detection[1], file_info[1]))
    /\ result' = Some(DocumentDetectionResult(file_info, final_detection,
                                              processing_info', "success", None))
    /\ Goto("success")
    /\ UNCHANGED <<last_call, file, cap, supported_types, mime_to_extension, raised,
                   file_info, extension_detection, mime_detection, final_detection>>

Init ==
    /\ file \in Files
    /\ cap \in Caps
    /\ cap = "mimetypes" => file.sniff = NoSniff
    /\ \E svc \in Services :
           /\ supported_types = svc.supported_types
           /\ mime_to_extension = svc.mime_to_extension
    /\ pc = "start"
    /\ file_info = None
    /\ extension_detection = None
    /\ mime_detection = None
    /\ final_detection = None
    /\ processing_info = None
    /\ result = None
    /\ raised = None
    /\ visited = <<"start">>
    /\ last_call = None

Next ==
    \/ CheckExists
    \/ Probe
    \/ ClassifyExtension
    \/ ClassifyContent
    \/ Resolve
    \/ Estimate

Spec == Init /\ [][Next]_vars

\* the call is synchronous and no step blocks: a step that can run does run
FairSpec == Spec /\ WF_vars(Next)

----------------------------------------------------------------------------
(* The resolver and the estimator on arbitrary classifier outputs: the call *)
(* is taken up at the resolve step with every extension classification and  *)
(* a content classification drawn from ContentClassifications.              *)

Confidences == {0, 20, 60, 69, 70, 71, 80, 90, 100}

ContentTypes == DOMAIN SUPPORTED_EXTENSIONS \cup {"unknown", ".xyz"}

ContentClassifications ==
    {DetectionResult("mime_content", t, m, "sniffed", c, b) :
        t \in ContentTypes, m \in {MimeTxt, "error"}, c \in Confidences, b \in BOOLEAN}
    \cup {MimeError("sniffing failed")}

\* the sizes of the model thinned out to every eighth step, and the 0.02 MB file
ResolveSizes == {SizeStep * k : k \in {j \in 0..MaxSizeSteps : j % 8 = 0}} \cup {20971}

InitResolve ==
    /\ file \in {File("regular", s, n, NoSniff) : s \in Suffixes, n \in ResolveSizes}
    /\ cap = "magic"
    /\ supported_types = NewDocumentService.supported_types
    /\ mime_to_extension = NewDocumentService.mime_to_extension
    /\ pc = "resolve"
    /\ file_info = Some(extract_file_info(file))
    /\ extension_detection = Some(detect_by_extension(file))
    /\ mime_detection \in {Some(d) : d \in ContentClassifications}
    /\ final_detection = None
    /\ processing_info = None
    /\ result = None
    /\ raised = None
    /\ visited = <<"start", "probe", "classify_extension", "classify_content", "resolve">>
    /\ last_call = None

NextResolve ==
    \/ Resolve
    \/ Estimate

SpecResolve == InitResolve /\ [][NextResolve]_vars

----------------------------------------------------------------------------
(* Properties *)

Terminal == {"success", "error", "raised"}

\* C1: for every input path detect_document_type returns a
\* DocumentDetectionResult and never lets an exception propagate to the
\* caller: a fault at any step, the path construction and the existence
\* check included, ends in a returned outcome with status error.
C1_NeverRaises ==
    /\ raised = None
    /\ pc # "raised"
    /\ pc \in Terminal => result # None
    /\ (pc \in Terminal /\ file.kind \in {"unstatable", "vanishing"}) =>
           (result # None /\ result[1].status = "error")

C3_AllOrNothing ==
    result # None =>
        LET r == result[1]
        IN  /\ r.status \in {"success", "error"}
            /\ r.status = "success" =>
                   /\ r.file_info # None
                   /\ r.detection # None
                   /\ r.processing # None
                   /\ r.error = None
            /\ r.status = "error" =>
                   /\ r.file_info = None
                   /\ r.detection = None
                   /\ r.processing = None
                   /\ r.error # None

\* an error outcome for a fault inside the try block, after the existence check
C3_Witness ==
    /\ file.kind = "vanishing"
    /\ pc = "error"
    /\ result # None
    /\ result[1].status = "error"
    /\ "probe" \in {visited[i] : i \in DOMAIN visited}

\* C4: whenever the content confidence is <= 0.7 or the content media
\* identifier is "error", the final classification has resolution
\* "extension_fallback" and otherwise equals the extension classification
\* field by field, extension_match unset, also when both detected types agree.
C4_ConfidenceGate ==
    (final_detection # None /\ extension_detection # None /\ mime_detection # None) =>
        LET e == extension_detection[1]
            m == mime_detection[1]
            d == final_detection[1]
        IN  (m.confidence <= 70 \/ m.mime_type = "error") =>
                /\ d.resolution = Some("extension_fallback")
                /\ d.method = e.method
                /\ d.detected_type = e.detected_type
                /\ d.mime_type = e.mime_type
                /\ d.description = e.description
                /\ d.confidence = e.confidence
                /\ d.is_supported = e.is_supported
                /\ d.extension_match = None

\* a content signal of confidence exactly 0.7 that names the extension's own type
C4_Witness ==
    /\ final_detection # None
    /\ mime_detection[1].confidence = 70
    /\ mime_detection[1].mime_type # "error"
    /\ mime_detection[1].is_supported
    /\ mime_detection[1].detected_type = extension_detection[1].detected_type
    /\ final_detection[1].resolution = Some("extension_fallback")
    /\ final_detection[1].confidence = 70

\* the content signal passed the gate
ContentTrusted(m) == m.confidence > 70 /\ m.mime_type # "error"

\* C5: when extension and sniffed content agree on a supported type (content
\* confidence > 0.7, not an error) the final classification is "coherent",
\* extension_match is true, the confidence is min(1.0, 0.7 + content
\* confidence), never above 1.0, and the rest is the content classification.
C5_Coherent ==
    (final_detection # None /\ extension_detection # None /\ mime_detection # None) =>
        LET e == extension_detection[1]
            m == mime_detection[1]
            d == final_detection[1]
        IN  (ContentTrusted(m) /\ e.is_supported /\ m.is_supported
             /\ e.detected_type = m.detected_type) =>
                /\ d.resolution = Some("coherent")
                /\ d.extension_match = Some(TRUE)
                /\ d.confidence = (IF 70 + m.confidence < 100 THEN 70 + m.confidence ELSE 100)
                /\ d.confidence <= 100
                /\ d.method = m.method
                /\ d.mime_type = m.mime_type
                /\ d.description = m.description
                /\ d.detected_type = m.detected_type
                /\ d.is_supported

\* report.pdf sniffed by the byte-signature library as application/pdf
C5_Witness ==
    /\ pc = "success"
    /\ file.suffix = ".pdf"
    /\ cap = "magic"
    /\ mime_detection[1].mime_type = MimePdf
    /\ mime_detection[1].confidence = 90
    /\ final_detection[1].resolution = Some("coherent")
    /\ final_detection[1].confidence = 100
    /\ result[1].detection = final_detection

\* C6: when the content confidence is > 0.7 (not an error) and the content's
\* detected type differs from the extension's, the final classification is
\* "mime_priority" (the specification's content_priority), extension_match
\* is false, the confidence is the content confidence exactly and the
\* detected type is the content's; report.docx sniffed as text/plain at 0.9
\* resolves to ".txt".
C6_ContentPriority ==
    (final_detection # None /\ extension_detection # None /\ mime_detection # None) =>
        LET e == extension_detection[1]
            m == mime_detection[1]
            d == final_detection[1]
        IN  /\ (ContentTrusted(m) /\ e.detected_type # m.detected_type) =>
                   /\ d.resolution = Some("mime_priority")
                   /\ d.extension_match = Some(FALSE)
                   /\ d.confidence = m.confidence
                   /\ d.detected_type = m.detected_type
            /\ (file.suffix = ".docx" /\ m.mime_type = MimeTxt /\ m.confidence = 90) =>
                   /\ d.resolution = Some("mime_priority")
                   /\ d.detected_type = ".txt"
                   /\ d.extension_match = Some(FALSE)

C6_Witness ==
    /\ pc = "success"
    /\ file.suffix = ".docx"
    /\ cap = "magic"
    /\ file.sniff.mime = Some(MimeTxt)
    /\ mime_detection[1].confidence = 90
    /\ final_detection[1].resolution = Some("mime_priority")
    /\ final_detection[1].detected_type = ".txt"
    /\ result[1].detection = final_detection

\* a step of the content classifier raises: the sniffing primitive itself, or
\* the catalog lookup (the inverse mapping names an extension that has no descriptor)
ContentFault ==
    \/ Sniff(file, cap).raises
    \/ /\ Sniff(file, cap).mime # None
       /\ Sniff(file, cap).mime[1] \in DOMAIN mime_to_extension
       /\ mime_to_extension[Sniff(file, cap).mime[1]] \notin DOMAIN supported_types

C7_Degraded ==
    (ContentFault /\ mime_detection # None) =>
        /\ mime_detection[1].detected_type = "unknown"
        /\ mime_detection[1].mime_type = "error"
        /\ mime_detection[1].confidence = 0
        /\ ~mime_detection[1].is_supported
        /\ pc \in {"resolve", "estimate", "success"}
        /\ final_detection # None =>
               /\ final_detection[1].resolution = Some("extension_fallback")
               /\ final_detection[1].extension_match = None
               /\ final_detection[1].method = "extension"
               /\ final_detection[1].detected_type = extension_detection[1].detected_type
               /\ final_detection[1].mime_type = extension_detection[1].mime_type
               /\ final_detection[1].confidence = extension_detection[1].confidence
               /\ final_detection[1].is_supported = extension_detection[1].is_supported
        /\ pc = "success" =>
               /\ result # None
               /\ result[1].status = "success"
               /\ result[1].detection = final_detection

\* C7: a fault inside content sniffing is never fatal: the content
\* classifier returns detected type "unknown", media identifier "error",
\* confidence 0.0, is_supported false; the detection continues through
\* resolve and estimate and ends with status success and resolution
\* "extension_fallback", the extension signal alone deciding.
C7_SniffingFaultNotFatal ==
    /\ [] C7_Degraded
    /\ (pc = "classify_content" /\ ContentFault) ~>
           (pc = "success" /\ result # None /\ result[1].status = "success"
            /\ result[1].detection[1].resolution = Some("extension_fallback"))

\* the catalog lookup raised (stale inverse entry) and the call still succeeded
C7_Witness ==
    /\ pc = "success"
    /\ ~Sniff(file, cap).raises
    /\ ContentFault
    /\ file.suffix = ".txt"
    /\ mime_detection[1].mime_type = "error"
    /\ result[1].status = "success"
    /\ result[1].detection[1].detected_type = ".txt"

PipelineOrder ==
    <<"start", "probe", "classify_extension", "classify_content", "resolve",
      "estimate", "success">>

IsPrefix(s, t) == Len(s) <= Len(t) /\ \A i \in 1..Len(s) : s[i] = t[i]

\* C8: a call is one pass through start, probe, classify_extension,
\* classify_content, resolve, estimate, success in that order, nothing
\* skipped or repeated; the only other transition goes from a non-terminal
\* state to error; success and error are terminal.
C8_OnePass ==
    /\ pc = visited[Len(visited)]
    /\ \/ IsPrefix(visited, PipelineOrder)
       \/ /\ visited[Len(visited)] = "error"
          /\ IsPrefix(SubSeq(visited, 1, Len(visited) - 1), PipelineOrder)
          /\ Len(visited) - 1 < Len(PipelineOrder)
    /\ final_detection # None => (extension_detection # None /\ mime_detection # None)
    /\ processing_info # None => final_detection # None

\* the final type is unsupported: flagged so, or its key is not in the catalog
Unsupported(d) == ~d.is_supported \/ d.detected_type \notin DOMAIN supported_types

\* C9: whenever the final classification is unsupported the estimator returns
\* can_process false with the reason "Type de fichier non supporté" (the
\* specification's "unsupported type") and parser, complexity, time and
\* memory class absent, and the outcome has status success; can_process is
\* true only for a supported type present in the catalog, and then the reason
\* is absent and the four other fields are present.  A .xyz file with
\* unsniffable content yields can_process false.
C9_UnsupportedNotAnError ==
    (processing_info # None /\ final_detection # None) =>
        LET d == final_detection[1]
            p == processing_info[1]
        IN  /\ Unsupported(d) =>
                   /\ p.can_process = FALSE
                   /\ p.reason = Some("Type de fichier non supporté")
                   /\ p.recommended_parser = None
                   /\ p.complexity = None
                   /\ p.estimated_time = None
                   /\ p.memory_requirement = None
                   /\ result # None
                   /\ result[1].status = "success"
                   /\ result[1].error = None
                   /\ result[1].processing = processing_info
            /\ p.can_process =>
                   /\ ~Unsupported(d)
                   /\ p.reason = None
                   /\ p.recommended_parser # None
                   /\ p.complexity # None
                   /\ p.estimated_time # None
                   /\ p.memory_requirement # None
            /\ (file.suffix = ".xyz" /\ mime_detection[1].mime_type = "error") =>
                   /\ p.can_process = FALSE
                   /\ p.reason = Some("Type de fichier non supporté")

\* a trusted content classification flagged as supported whose type key is not in the catalog
C9_Witness ==
    /\ pc = "success"
    /\ final_detection[1].is_supported
    /\ final_detection[1].detected_type = ".xyz"
    /\ final_detection[1].resolution = Some("mime_priority")
    /\ processing_info[1].can_process = FALSE
    /\ result[1].status = "success"

SpecBaseTime(c) == IF c = "low" THEN 1 ELSE IF c = "medium" THEN 5 ELSE 15

\* C10: for a supported final type the estimated time is
\* base(complexity) * max(1, size_mb / 5) seconds with base 1, 5, 15 for
\* low, medium, high, written "~{seconds}s" below 60 s and "~{minutes}min"
\* otherwise, both truncated to an integer; a 0.02 MB .txt file sniffed as
\* text/plain at 0.9 is coherent, can be processed, has memory class low and
\* estimated time "~1s".
C10_EstimatedTime ==
    (processing_info # None /\ processing_info[1].can_process) =>
        LET p == processing_info[1]
            h == file_info[1].size_mb
            \* seconds * 500, size_mb being h / 100
            s500 == SpecBaseTime(p.complexity[1]) * (IF h > 500 THEN h ELSE 500)
        IN  /\ p.complexity[1] \in ComplexityLevel
            /\ \/ /\ s500 < 60 * 500
                  /\ \E n \in 0..59 :
                         /\ n * 500 <= s500
                         /\ s500 < (n + 1) * 500
                         /\ p.estimated_time = Some("~" \o ToString(n) \o "s")
               \/ /\ s500 >= 60 * 500
                  /\ \E n \in 1..200 :
                         /\ n * 60 * 500 <= s500
                         /\ s500 < (n + 1) * 60 * 500
                         /\ p.estimated_time = Some("~" \o ToString(n) \o "min")
            /\ (file.size_bytes = 20971 /\ file.suffix = ".txt"
                /\ mime_detection[1].mime_type = MimeTxt
                /\ mime_detection[1].confidence = 90) =>
                   /\ h = 2
                   /\ final_detection[1].resolution = Some("coherent")
                   /\ final_detection[1].is_supported
                   /\ p.memory_requirement = Some("low")
                   /\ p.estimated_time = Some("~1s")

\* a 22.5 MB pdf: 15 * 4.5 = 67.5 s, written "~1min"
C10_Witness ==
    /\ pc = "success"
    /\ file.suffix = ".pdf"
    /\ file_info[1].size_mb = 2250
    /\ processing_info[1].can_process
    /\ processing_info[1].complexity = Some("high")
    /\ processing_info[1].estimated_time = Some("~1min")
    /\ result[1].processing = processing_info

SizeBuckets == <<"small", "medium", "large", "very_large">>

BucketRank(b) == CHOOSE i \in 1..4 : SizeBuckets[i] = b

\* C11: the size bucket is a total step function of the size in bytes with
\* cut points at exactly 1, 10 and 50 MB of 1024 * 1024 bytes: below 1 MB
\* small, from 1 MB medium, from 10 MB large, from 50 MB very_large; every
\* size gets exactly one bucket and the bucket never decreases with the size.
C11_SizeBuckets ==
    file_info # None =>
        LET n == file_info[1].size_bytes
            b == file_info[1].size_category
        IN  /\ n = file.size_bytes
            /\ Cardinality({i \in 1..4 : SizeBuckets[i] = b}) = 1
            /\ b = "small" <=> n < 1048576
            /\ b = "medium" <=> (1048576 <= n /\ n < 10485760)
            /\ b = "large" <=> (10485760 <= n /\ n < 52428800)
            /\ b = "very_large" <=> n >= 52428800
            /\ \A n2 \in Sizes :
                   /\ n2 <= n => BucketRank(categorize_file_size(n2)) <= BucketRank(b)
                   /\ n2 >= n => BucketRank(categorize_file_size(n2)) >= BucketRank(b)

\* a file of exactly 1 MB is medium
C11_Witness ==
    /\ pc = "success"
    /\ file.size_bytes = 1048576
    /\ file_info[1].size_category = "medium"
    /\ result[1].file_info = file_info

SpecRank(c) == IF c = "low" THEN 1 ELSE IF c = "medium" THEN 2 ELSE IF c = "high" THEN 3 ELSE 0

\* size_mb in hundredths: below 5 MB low, below 20 MB medium, otherwise high
SpecSizeComplexity(h) == IF h < 500 THEN "low" ELSE IF h < 2000 THEN "medium" ELSE "high"

\* C12: for a supported final type the complexity reported by the estimator
\* is the ordinal maximum (low < medium < high) of the catalog's intrinsic
\* complexity of that type and the size-derived complexity: never lower than
\* either, always one of the two, always one of low, medium, high.
C12_OverallComplexity ==
    (processing_info # None /\ processing_info[1].can_process) =>
        LET c == processing_info[1].complexity[1]
            intrinsic == supported_types[final_detection[1].detected_type].complexity
            by_size == SpecSizeComplexity(file_info[1].size_mb)
        IN  /\ c \in {"low", "medium", "high"}
            /\ c \in {intrinsic, by_size}
            /\ SpecRank(c) >= SpecRank(intrinsic)
            /\ SpecRank(c) >= SpecRank(by_size)

\* a 7.5 MB plain-text file: intrinsic low, size-derived medium
C12_Witness ==
    /\ pc = "success"
    /\ final_detection[1].detected_type = ".txt"
    /\ file_info[1].size_mb = 750
    /\ processing_info[1].can_process
    /\ processing_info[1].complexity = Some("medium")
    /\ result[1].processing = processing_info

----------------------------------------------------------------------------
(* DocumentService under add_document_type and remove_document_type *)

\* the descriptors callers register: a new extension and an existing one,
\* each under a new media identifier or one the catalog already uses
AddedTypes ==
    {DocumentType(e, m, "added", "parser", "low") :
        e \in {".rtf", ".txt"}, m \in {MimeRtf, "text/rtf", MimeTxt}}

RemovedExtensions == {".rtf", ".txt", ".TXT", ".pdf", ".xyz"}

Service == [supported_types |-> supported_types, mime_to_extension |-> mime_to_extension]

ServiceCall(op, argument, returned, exception) ==
    [op |-> op, argument |-> argument, returned |-> returned, exception |-> exception]

AddDocumentType ==
    \E doc_type \in AddedTypes :
        LET after == add_document_type(Service, doc_type)
        IN  /\ supported_types' = after.supported_types
            /\ mime_to_extension' = after.mime_to_extension
            /\ last_call' = Some(ServiceCall("add", doc_type.extension, None, None))
            /\ UNCHANGED <<file, cap, pc, file_info, extension_detection, mime_detection,
                           final_detection, processing_info, result, raised, visited>>

RemoveDocumentType ==
    \E extension \in RemovedExtensions :
        LET after == remove_document_type(Service, extension)
        IN  /\ supported_types' = after.supported_types
            /\ mime_to_extension' = after.mime_to_extension
            /\ last_call' =
                   IF remove_raises(Service, extension)
                   THEN Some(ServiceCall("remove", extension, None, Some("KeyError")))
                   ELSE Some(ServiceCall("remove", extension,
                                         Some(remove_returns(Service, extension)), None))
            /\ UNCHANGED <<file, cap, pc, file_info, extension_detection, mime_detection,
                           final_detection, processing_info, result, raised, visited>>

InitService ==
    /\ supported_types = NewDocumentService.supported_types
    /\ mime_to_extension = NewDocumentService.mime_to_extension
    /\ last_call = None
    /\ file = File("missing", "", 0, NoSniff)
    /\ cap = "mimetypes"
    /\ pc = "start"
    /\ file_info = None
    /\ extension_detection = None
    /\ mime_detection = None
    /\ final_detection = None
    /\ processing_info = None
    /\ result = None
    /\ raised = None
    /\ visited = <<"start">>

NextService ==
    \/ AddDocumentType
    \/ RemoveDocumentType

SpecService == InitService /\ [][NextService]_vars

\* C13: after any sequence of add_document_type and remove_document_type
\* calls the media-identifier-to-extension map is exactly the inverse of the
\* extension-to-descriptor map: every key maps to a supported extension
\* whose descriptor has that media identifier, and every supported
\* extension's media identifier is a key mapping back to it; so
\* get_extension_from_mime never returns an extension that is not supported,
\* and remove_document_type never raises.
C13_InverseMaps ==
    /\ \A m \in DOMAIN mime_to_extension :
           /\ mime_to_extension[m] \in DOMAIN supported_types
           /\ supported_types[mime_to_extension[m]].mime_type = m
    /\ \A e \in DOMAIN supported_types :
           /\ supported_types[e].mime_type \in DOMAIN mime_to_extension
           /\ mime_to_extension[supported_types[e].mime_type] = e
    /\ \A m \in DOMAIN mime_to_extension :
           is_supported(get_extension_from_mime(Some(m))[1])
    /\ (last_call # None /\ last_call[1].op = "remove") => last_call[1].exception = None

====
